---------------------------- MODULE Spec2Model ----------------------------
(***************************************************************************)
(* A model of refrapt/classes.py: the mirror target (Source), its index    *)
(* manifest (IndexCollection / Timestamp), the checksum-block line scanner *)
(* (Source.__ProcessLine), the package index parser (Index) and the        *)
(* download coordinator (Downloader).                                      *)
(*                                                                         *)
(* Text is modelled as sequences of one-character strings, so that         *)
(* splitting, stripping, substring tests and pattern matches are computed  *)
(* the way the code computes them.                                         *)
(***************************************************************************)
EXTENDS Naturals, Integers, Sequences, FiniteSets, TLC

VARIABLES
    \* ---- Source and its IndexCollection ----
    src,             \* the Source object: the fields set by __init__
    indexCollection, \* component -> architecture -> file -> [Current, Download]
    disk,            \* files under Settings.SkelPath(): path -> mtime, 0 if absent
    settings,        \* Settings: [force, byHash, contents]
    phase,           \* history: "new", "indexed", "stamped", "restamped"
    registered,      \* history: the files the last GetIndexes() registered
    probe1,          \* history: what the last GetIndexes() saw of them on disk
    probe2,          \* history: what the last Timestamp() saw of them on disk
    lastCall,        \* history: the last step taken
    lastErr,         \* history: the exception that ended the last call, or "none"
    returned,        \* history: the lists GetIndexes() returned since the last
                     \* Timestamp(), the last two of them, newest first, each
                     \* with whether the files differed from the call before
    prevPass,        \* history, kept in SpecPass: what the last pass
                     \* (GetIndexes() and then Timestamp()) completed before
                     \* the last GetIndexes() left in
                     \* GetReleaseFiles(modified=True): "none" if there was no
                     \* such pass, "modified", "unmodified"
    \* ---- Source.__init__ on a line of the configuration ----
    parseLine,       \* the line given to Source(line, defaultArch)
    parsed,          \* the Source object constructed (<<>> while there is none)
    parsePc,         \* "new", "constructed", "raised"
    parseErr,        \* the exception that ended __init__ ("none" if none)
    \* ---- Source.__ProcessLine, line by line ----
    scanMode,        \* the arguments of the call
    scanSt,          \* the locals of the loop: [checksums, checksumType, indexes, err]
    scanCount,       \* lines read so far
    scanPc,          \* "reading", "returned"
    scanHist,        \* history: the last lines read, newest first, each with
                     \* the locals before it and whether a checksum section
                     \* of the file was open before it
    inSection,       \* history: the file is inside a checksum section
    \* ---- Index.Read and Index.GetPackages ----
    pkgContent,      \* the content of the file at self._path
    pkgLines,        \* self._lines
    pkgPos,          \* lines of self._lines the loop has consumed
    packages,        \* the local `packages`
    package,         \* the local `package`
    key,             \* the local `key` (<<>> models None)
    pkgPc,           \* "new", "read", "loop", "returned", "raised"
    pkgErr,          \* the exception GetPackages ended in ("none" if none)
    pkgBefore,       \* history: the locals before the last iteration of the
                     \* loop (<<>> before the first)
    \* ---- Downloader ----
    varPath,      \* files of Settings.VarPath(): file name -> content
    mainPc,       \* the refrapt process: "start", "idle", "downloading", "crashed"
    threads,      \* Settings.Threads()
    urls,         \* the batch given to the running (or last) Download()
    nextTask,     \* how many URLs of the batch the pool has handed out
    pool,         \* worker identity -> [pc, task]
    procCounter,  \* child processes created so far by this process
    results,      \* URLs whose worker call has returned (per index: "ok"/"fail")
    attempts,     \* history: per index of the batch, the os.system calls made
    batches,      \* history: Download() calls since the process started
    crashes,      \* history: interruptions so far
    stale,        \* history: [name, url] of the fetches the last interruption cut
    removed       \* history: [slot, url, result] of the last marker removal

dlVars == <<varPath, mainPc, threads, urls, nextTask, pool, procCounter,
            results, attempts, batches, crashes, stale, removed>>

srcVars == <<src, indexCollection, disk, settings, phase, registered, probe1,
             probe2, lastCall, lastErr, returned, prevPass>>

scanVars == <<scanMode, scanSt, scanCount, scanPc, scanHist, inSection>>

pkgVars ==
    <<pkgContent, pkgLines, pkgPos, packages, package, key, pkgPc, pkgErr, pkgBefore>>

parseVars == <<parseLine, parsed, parsePc, parseErr>>

vars == <<srcVars, parseVars, scanVars, pkgVars, dlVars>>

-----------------------------------------------------------------------------
(* Bounds of the model.                                                    *)

MaxThreads == 2
MaxUrls    == 2
MaxBatches == 1
MaxCrashes == 1
MaxMTime   == 2
MaxScanLines == 5
MaxPkgLines == 4

-----------------------------------------------------------------------------
(* Text helpers: Python's str operations on sequences of characters.       *)

\* `sub in s`
Contains(s, sub) ==
    \E i \in 1..(Len(s) + 1 - Len(sub)) : SubSeq(s, i, i + Len(sub) - 1) = sub

\* str(n) of a natural number, as an f-string renders it
RECURSIVE IntStr(_)
IntStr(n) ==
    LET digits == <<"0", "1", "2", "3", "4", "5", "6", "7", "8", "9">>
    IN  IF n < 10 THEN <<digits[n + 1]>>
        ELSE IntStr(n \div 10) \o <<digits[(n % 10) + 1]>>


Whitespace == {" ", "\n", "\t", "\r"}

StartsWith(s, pre) == Len(s) >= Len(pre) /\ SubSeq(s, 1, Len(pre)) = pre

EndsWith(s, suf) ==
    Len(s) >= Len(suf) /\ SubSeq(s, Len(s) + 1 - Len(suf), Len(s)) = suf

\* s.index(sub) for a sub that occurs in s (1-based)
IndexOf(s, sub) ==
    CHOOSE i \in 1..(Len(s) + 1 - Len(sub)) :
        /\ SubSeq(s, i, i + Len(sub) - 1) = sub
        /\ \A j \in 1..(i - 1) : SubSeq(s, j, j + Len(sub) - 1) # sub

\* s.split(sep): the pieces between the occurrences of sep, empty ones kept
RECURSIVE Split(_, _)
Split(s, sep) ==
    IF ~Contains(s, sep) THEN <<s>>
    ELSE LET i == IndexOf(s, sep)
         IN  <<SubSeq(s, 1, i - 1)>> \o Split(SubSeq(s, i + Len(sep), Len(s)), sep)

\* list(filter(None, pieces))
FilterNone(pieces) == SelectSeq(pieces, LAMBDA x : x # <<>>)

\* s.replace(old, "")
RECURSIVE Remove(_, _)
Remove(s, old) ==
    IF s = <<>> THEN <<>>
    ELSE IF StartsWith(s, old) THEN Remove(SubSeq(s, Len(old) + 1, Len(s)), old)
    ELSE <<s[1]>> \o Remove(Tail(s), old)

\* s.rstrip()
RECURSIVE RStrip(_)
RStrip(s) ==
    IF s # <<>> /\ s[Len(s)] \in Whitespace THEN RStrip(SubSeq(s, 1, Len(s) - 1))
    ELSE s

\* s.lstrip()
RECURSIVE LStrip(_)
LStrip(s) == IF s # <<>> /\ s[1] \in Whitespace THEN LStrip(Tail(s)) ELSE s

\* s.strip()
Strip(s) == LStrip(RStrip(s))

\* the concatenation of a sequence of sequences
RECURSIVE Flatten(_)
Flatten(ss) == IF ss = <<>> THEN <<>> ELSE Head(ss) \o Flatten(Tail(ss))

\* the elements of a sequence
Range(q) == {q[i] : i \in DOMAIN q}

\* os.path.splitext(p)[0]: p without the extension of its last path
\* component (a dot after the last "/" that is not among its leading dots)
LastIndexOf(s, c) ==
    IF \E i \in 1..Len(s) : s[i] = c
    THEN CHOOSE i \in 1..Len(s) : s[i] = c /\ \A j \in (i + 1)..Len(s) : s[j] # c
    ELSE 0

SplitextRoot(p) ==
    LET sepIndex == LastIndexOf(p, "/")
        dotIndex == LastIndexOf(p, ".")
    IN  IF /\ dotIndex > sepIndex
           /\ \E k \in (sepIndex + 1)..(dotIndex - 1) : p[k] # "."
        THEN SubSeq(p, 1, dotIndex - 1)
        ELSE p

-----------------------------------------------------------------------------
(* The literal strings of classes.py.                                      *)

Lit ==
    [Hash |-> <<"#">>,
     Space |-> <<" ">>,
     Newline |-> <<"\n">>,
     OpenBracket |-> <<"[">>,
     CloseBracket |-> <<"]">>,
     Comma |-> <<",">>,
     Colon |-> <<":">>,
     Deb |-> <<"d", "e", "b">>,
     DebSrc |-> <<"d", "e", "b", "-", "s", "r", "c">>,
     ArchEq |-> <<"a", "r", "c", "h", "=">>,
     Flat |-> <<"F", "l", "a", "t">>,
     Dists |-> <<"/", "d", "i", "s", "t", "s", "/">>,
     Slash |-> <<"/">>,
     InRelease |-> <<"I", "n", "R", "e", "l", "e", "a", "s", "e">>,
     Release |-> <<"R", "e", "l", "e", "a", "s", "e">>,
     ReleaseGpg |-> <<"R", "e", "l", "e", "a", "s", "e", ".", "g", "p", "g">>,
     Gz |-> <<".", "g", "z">>,
     Bz2 |-> <<".", "b", "z", "2">>,
     Xz |-> <<".", "x", "z">>,
     SlashSources |-> <<"/", "S", "o", "u", "r", "c", "e", "s">>,
     SlashPackages |-> <<"/", "P", "a", "c", "k", "a", "g", "e", "s">>,
     ContentsDash |-> <<"C", "o", "n", "t", "e", "n", "t", "s", "-">>,
     SlashContentsDash |->
        <<"/", "C", "o", "n", "t", "e", "n", "t", "s", "-">>,
     SlashBinaryDash |-> <<"/", "b", "i", "n", "a", "r", "y", "-">>,
     SlashRelease |-> <<"/", "R", "e", "l", "e", "a", "s", "e">>,
     SlashCnfCommandsDash |->
        <<"/", "c", "n", "f", "/", "C", "o", "m", "m", "a", "n", "d", "s",
          "-">>,
     SlashI18nCnfCommandsDash |->
        <<"/", "i", "1", "8", "n", "/", "c", "n", "f", "/", "C", "o", "m",
          "m", "a", "n", "d", "s", "-">>,
     SlashI18nIndex |->
        <<"/", "i", "1", "8", "n", "/", "I", "n", "d", "e", "x">>,
     SlashSourceRelease |->
        <<"/", "s", "o", "u", "r", "c", "e", "/", "R", "e", "l", "e", "a",
          "s", "e">>,
     SlashSourceSources |->
        <<"/", "s", "o", "u", "r", "c", "e", "/", "S", "o", "u", "r", "c",
          "e", "s">>,
     SlashI18nSlash |-> <<"/", "i", "1", "8", "n", "/">>,
     Index |-> <<"I", "n", "d", "e", "x">>,
     Sha256Colon |-> <<"S", "H", "A", "2", "5", "6", ":">>,
     Sha1Colon |-> <<"S", "H", "A", "1", ":">>,
     Md5SumColon |-> <<"M", "D", "5", "S", "u", "m", ":">>,
     SlashI18nTranslationDash |->
        <<"/", "i", "1", "8", "n", "/", "T", "r", "a", "n", "s", "l", "a",
          "t", "i", "o", "n", "-">>,
     SlashI18nByHashSlash |->
        <<"/", "i", "1", "8", "n", "/", "b", "y", "-", "h", "a", "s", "h",
          "/">>,
     SlashDep11ByHashSlash |->
        <<"/", "d", "e", "p", "1", "1", "/", "b", "y", "-", "h", "a", "s",
          "h", "/">>,
     SlashDep11Slash |-> <<"/", "d", "e", "p", "1", "1", "/">>,
     ComponentsDash |->
        <<"C", "o", "m", "p", "o", "n", "e", "n", "t", "s", "-">>,
     DotYml |-> <<".", "y", "m", "l">>,
     IconsDash |-> <<"i", "c", "o", "n", "s", "-">>,
     DotTar |-> <<".", "t", "a", "r">>,
     SchemeSep |-> <<":", "/", "/">>,
     DownloadLock |->
        <<"D", "o", "w", "n", "l", "o", "a", "d", "-", "l", "o", "c", "k",
          ".">>,
     DotLock |-> <<".", "l", "o", "c", "k">>]

\* compressionFormats of GetIndexes
CompressionFormats == <<Lit.Gz, Lit.Bz2, Lit.Xz>>

-----------------------------------------------------------------------------
(* refrapt.helpers.SanitiseUri and the dict operations                     *)

\* SanitiseUri(uri): the URL as a path relative to the mirror's root, the
\* scheme removed
SanitiseUri(uri) ==
    LET sep == Lit.SchemeSep
    IN  IF /\ Contains(uri, sep)
           /\ ~Contains(SubSeq(uri, 1, IndexOf(uri, sep)), Lit.Slash)
        THEN SubSeq(uri, IndexOf(uri, sep) + Len(sep), Len(uri))
        ELSE uri

\* d[k] = v
DictSet(d, k, v) == [x \in (DOMAIN d) \cup {k} |-> IF x = k THEN v ELSE d[x]]

\* del d[k]
DictDel(d, k) == [x \in (DOMAIN d) \ {k} |-> d[x]]

EmptyDict == <<>>

-----------------------------------------------------------------------------
(* Index: Read and GetPackages                                             *)

\* the characters \w matches, in ASCII
WordChars ==
    {"a", "b", "c", "d", "e", "f", "g", "h", "i", "j", "k", "l", "m", "n",
     "o", "p", "q", "r", "s", "t", "u", "v", "w", "x", "y", "z", "A", "B",
     "C", "D", "E", "F", "G", "H", "I", "J", "K", "L", "M", "N", "O", "P",
     "Q", "R", "S", "T", "U", "V", "W", "X", "Y", "Z", "0", "1", "2", "3",
     "4", "5", "6", "7", "8", "9", "_"}

\* keywords of GetPackages
Keywords ==
    {<<"F", "i", "l", "e", "n", "a", "m", "e">>,
     <<"M", "D", "5", "s", "u", "m">>,
     <<"S", "H", "A", "1">>,
     <<"S", "H", "A", "2", "5", "6">>,
     <<"S", "i", "z", "e">>,
     <<"F", "i", "l", "e", "s">>,
     <<"D", "i", "r", "e", "c", "t", "o", "r", "y">>}

\* f.readlines() of a file opened "rb": the content cut after each "\n", a
\* last piece without "\n" included
RECURSIVE ReadRawLines(_)
ReadRawLines(content) ==
    IF content = <<>> THEN <<>>
    ELSE IF ~Contains(content, Lit.Newline) THEN <<content>>
    ELSE LET i == IndexOf(content, Lit.Newline)
         IN  <<SubSeq(content, 1, i)>>
                \o ReadRawLines(SubSeq(content, i + 1, Len(content)))

\* Index.Read(): self._lines, each line decoded and rstrip()ped
ReadLines(content) ==
    LET contents == ReadRawLines(content)
    IN  [i \in 1..Len(contents) |-> RStrip(contents[i])]

\* re.search(r"^([\w\-]+:)", line)
MatchesField(line) ==
    \E k \in 2..Len(line) :
        /\ line[k] = ":"
        /\ \A i \in 1..(k - 1) : line[i] \in WordChars \cup {"-"}

\* the locals of GetPackages before the loop
PkgStart == [packages |-> <<>>, package |-> EmptyDict, key |-> <<>>, err |-> "none"]

\* one iteration of `for line in self._lines`; err is the exception the
\* iteration raises (package[key] += ... on a key the record does not hold,
\* line.split(":")[1] on a line without a colon)
\* (the mutant appends no record at a blank line when the record is empty)
GetPackagesStep_SkipEmpty(st, line) ==
    IF line = <<>>
    THEN IF st.package = EmptyDict THEN st
         ELSE [st EXCEPT !.packages = Append(@, st.package), !.package = EmptyDict]
    ELSE IF ~MatchesField(line) /\ st.key # <<>>
    THEN IF st.key \in DOMAIN st.package
         THEN [st EXCEPT !.package[st.key] = @ \o Lit.Newline \o Strip(line)]
         ELSE [st EXCEPT !.err = "KeyError"]
    ELSE LET pieces == Split(line, Lit.Colon)
         IN  IF pieces[1] \in Keywords
             THEN IF Len(pieces) < 2
                  THEN [st EXCEPT !.key = pieces[1], !.err = "IndexError"]
                  ELSE [st EXCEPT !.key = pieces[1],
                                  !.package = DictSet(@, pieces[1], Strip(pieces[2]))]
             ELSE [st EXCEPT !.key = <<>>]

GetPackagesStep(st, line) ==
    IF line = <<>>
    THEN [st EXCEPT !.packages = Append(@, st.package), !.package = EmptyDict]
    ELSE IF ~MatchesField(line) /\ st.key # <<>>
    THEN IF st.key \in DOMAIN st.package
         THEN [st EXCEPT !.package[st.key] = @ \o Lit.Newline \o Strip(line)]
         ELSE [st EXCEPT !.err = "KeyError"]
    ELSE LET pieces == Split(line, Lit.Colon)
         IN  IF pieces[1] \in Keywords
             THEN IF Len(pieces) < 2
                  THEN [st EXCEPT !.key = pieces[1], !.err = "IndexError"]
                  ELSE [st EXCEPT !.key = pieces[1],
                                  !.package = DictSet(@, pieces[1], Strip(pieces[2]))]
             ELSE [st EXCEPT !.key = <<>>]

-----------------------------------------------------------------------------
(* Source.__init__                                                         *)

\* Source.__init__(line, defaultArch): the fields of the object, or the
\* exception that ends the construction
\* (the mutant leaves the uri unset where the line has no token for it)
SourceInit_UnsetUri(line0, defaultArch) ==
    LET line == IF Contains(line0, Lit.Hash)
                THEN SubSeq(line0, 1, IndexOf(line0, Lit.Hash) - 1) ELSE line0
        elements == FilterNone(Split(line, Lit.Space))
        hasArch == Contains(line, Lit.OpenBracket) /\ Contains(line, Lit.CloseBracket)
        archList == Remove(Split(Split(line, Lit.OpenBracket)[2], Lit.CloseBracket)[1], Lit.ArchEq)
        \* elementIndex, counted from 1 as the sequences of this module are
        elementIndex == IF hasArch THEN 3 ELSE 2
    IN  IF elements = <<>>
        THEN [err |-> "IndexError"]
        ELSE [err |-> "none",
              sourceType |-> IF elements[1] = Lit.Deb THEN "Bin"
                             ELSE IF Contains(elements[1], Lit.DebSrc) THEN "Src"
                             ELSE "Bin",
              architectures |-> IF hasArch THEN Split(archList, Lit.Comma)
                                ELSE <<defaultArch>>,
              uri |-> IF Len(elements) < elementIndex THEN <<>>
                      ELSE elements[elementIndex],
              distribution |-> IF Len(elements) > elementIndex
                               THEN elements[elementIndex + 1] ELSE <<>>,
              components |-> IF Len(elements) > elementIndex
                             THEN SubSeq(elements, elementIndex + 2, Len(elements))
                             ELSE <<Lit.Flat>>,
              flatRepository |-> ~(Len(elements) > elementIndex)]

SourceInit(line0, defaultArch) ==
    LET line == IF Contains(line0, Lit.Hash)
                THEN SubSeq(line0, 1, IndexOf(line0, Lit.Hash) - 1) ELSE line0
        elements == FilterNone(Split(line, Lit.Space))
        hasArch == Contains(line, Lit.OpenBracket) /\ Contains(line, Lit.CloseBracket)
        archList == Remove(Split(Split(line, Lit.OpenBracket)[2], Lit.CloseBracket)[1], Lit.ArchEq)
        \* elementIndex, counted from 1 as the sequences of this module are
        elementIndex == IF hasArch THEN 3 ELSE 2
    IN  IF Len(elements) < elementIndex
        THEN [err |-> "IndexError"]
        ELSE [err |-> "none",
              sourceType |-> IF elements[1] = Lit.Deb THEN "Bin"
                             ELSE IF Contains(elements[1], Lit.DebSrc) THEN "Src"
                             ELSE "Bin",
              architectures |-> IF hasArch THEN Split(archList, Lit.Comma)
                                ELSE <<defaultArch>>,
              uri |-> elements[elementIndex],
              distribution |-> IF Len(elements) > elementIndex
                               THEN elements[elementIndex + 1] ELSE <<>>,
              components |-> IF Len(elements) > elementIndex
                             THEN SubSeq(elements, elementIndex + 2, Len(elements))
                             ELSE <<Lit.Flat>>,
              flatRepository |-> ~(Len(elements) > elementIndex)]

-----------------------------------------------------------------------------
(* Timestamp and IndexCollection                                           *)

\* Timestamp(): both timestamps 0.0
NewTimestamp == [Current |-> 0, Download |-> 0]

\* Timestamp.Modified (the mutant tells a downloaded file from a missing one)
TimestampModified_Downloaded(ts) == ts.Download # 0

TimestampModified(ts) == ts.Current # ts.Download

\* IndexCollection(components, architectures); the mutant leaves the keys to the
\* first Add
IndexCollectionInit_Lazy(components, architectures) == EmptyDict

IndexCollectionInit(components, architectures) ==
    [c \in Range(components) |-> [a \in Range(architectures) |-> EmptyDict]]

\* IndexCollection.Add(component, architecture, file), on a defaultdict of
\* defaultdicts of dicts
Add(ic, component, architecture, file) ==
    LET byArch == IF component \in DOMAIN ic THEN ic[component] ELSE EmptyDict
        files  == IF architecture \in DOMAIN byArch THEN byArch[architecture]
                  ELSE EmptyDict
    IN  DictSet(ic, component,
            DictSet(byArch, architecture,
                DictSet(files, SanitiseUri(file), NewTimestamp)))

\* the Add calls of one GetIndexes(), in order
RECURSIVE AddAll(_, _)
AddAll(ic, adds) ==
    IF adds = <<>> THEN ic
    ELSE AddAll(Add(ic, Head(adds)[1], Head(adds)[2], Head(adds)[3]), Tail(adds))

\* os.path.isfile(f"{Settings.SkelPath()}/{file}")
IsFile(d, file) == file \in DOMAIN d /\ d[file] # 0

\* os.path.getmtime(Path(f"{Settings.SkelPath()}/{file}"))
GetMTime(d, file) == d[file]

\* IndexCollection.DetermineCurrentTimestamps(); the mutant records no
\* Current timestamp
DetermineCurrentTimestamps_Skip(ic, d) == ic

DetermineCurrentTimestamps(ic, d) ==
    [c \in DOMAIN ic |-> [a \in DOMAIN ic[c] |-> [f \in DOMAIN ic[c][a] |->
        IF IsFile(d, f)
        THEN [ic[c][a][f] EXCEPT !.Current = GetMTime(d, SanitiseUri(f))]
        ELSE ic[c][a][f]]]]

\* IndexCollection.DetermineDownloadTimestamps(); the mutant forgets to
\* delete the entries of the files that are not there
DetermineDownloadTimestamps_KeepAbsent(ic, d) ==
    [c \in DOMAIN ic |-> [a \in DOMAIN ic[c] |-> [f \in DOMAIN ic[c][a] |->
        IF IsFile(d, f)
        THEN [ic[c][a][f] EXCEPT !.Download = GetMTime(d, SanitiseUri(f))]
        ELSE ic[c][a][f]]]]

DetermineDownloadTimestamps(ic, d) ==
    [c \in DOMAIN ic |-> [a \in DOMAIN ic[c] |->
        [f \in {g \in DOMAIN ic[c][a] : IsFile(d, g)} |->
            [ic[c][a][f] EXCEPT !.Download = GetMTime(d, SanitiseUri(f))]]]]

\* the (component, architecture, file) triples of the collection
Entries(ic) ==
    UNION {UNION {{<<c, a, f>> : f \in DOMAIN ic[c][a]} : a \in DOMAIN ic[c]} :
           c \in DOMAIN ic}

\* IndexCollection.Files, as the set of its elements; the mutant does not
\* read Settings.Force()
Files_NoForce(ic, force) ==
    {SplitextRoot(e[3]) : e \in {x \in Entries(ic) :
        TimestampModified(ic[x[1]][x[2]][x[3]])}}

Files(ic, force) ==
    {SplitextRoot(e[3]) : e \in {x \in Entries(ic) :
        TimestampModified(ic[x[1]][x[2]][x[3]]) \/ force}}

\* IndexCollection.UnmodifiedFiles, as the set of its elements
UnmodifiedFiles(ic) ==
    {SplitextRoot(e[3]) : e \in {x \in Entries(ic) :
        ~TimestampModified(ic[x[1]][x[2]][x[3]])}}

-----------------------------------------------------------------------------
(* Source.GetIndexes                                                       *)

BaseUrl(source) == source.uri \o Lit.Dists \o source.distribution \o Lit.Slash

\* the URLs and Add calls of one (component, architecture) of a Binary Source
BinaryArchIndexes(baseUrl, component, architecture, contents) ==
    (IF contents
     THEN [k \in 1..Len(CompressionFormats) |->
            baseUrl \o component \o Lit.SlashContentsDash \o architecture
                \o CompressionFormats[k]]
     ELSE <<>>)
    \o <<baseUrl \o component \o Lit.SlashBinaryDash \o architecture \o Lit.SlashRelease>>
    \o Flatten([k \in 1..Len(CompressionFormats) |->
        <<baseUrl \o component \o Lit.SlashBinaryDash \o architecture
              \o Lit.SlashPackages \o CompressionFormats[k],
          baseUrl \o component \o Lit.SlashCnfCommandsDash \o architecture
              \o CompressionFormats[k],
          baseUrl \o component \o Lit.SlashI18nCnfCommandsDash \o architecture
              \o CompressionFormats[k]>>])

BinaryArchAdds(baseUrl, component, architecture) ==
    [k \in 1..Len(CompressionFormats) |->
        <<component, architecture,
          baseUrl \o component \o Lit.SlashBinaryDash \o architecture
              \o Lit.SlashPackages \o CompressionFormats[k]>>]

BinaryIndexes(source, contents) ==
    LET baseUrl == BaseUrl(source)
        archs == source.architectures
    IN  (IF contents
         THEN Flatten([i \in 1..Len(archs) |->
                [k \in 1..Len(CompressionFormats) |->
                    baseUrl \o Lit.ContentsDash \o archs[i] \o CompressionFormats[k]]])
         ELSE <<>>)
        \o Flatten([j \in 1..Len(source.components) |->
            Flatten([i \in 1..Len(archs) |->
                BinaryArchIndexes(baseUrl, source.components[j], archs[i], contents)])
            \o <<baseUrl \o source.components[j] \o Lit.SlashI18nIndex>>])

BinaryAdds(source) ==
    Flatten([j \in 1..Len(source.components) |->
        Flatten([i \in 1..Len(source.architectures) |->
            BinaryArchAdds(BaseUrl(source), source.components[j],
                           source.architectures[i])])])

SourceIndexes(source) ==
    Flatten([j \in 1..Len(source.components) |->
        <<BaseUrl(source) \o source.components[j] \o Lit.SlashSourceRelease>>
        \o [k \in 1..Len(CompressionFormats) |->
              BaseUrl(source) \o source.components[j] \o Lit.SlashSourceSources
                  \o CompressionFormats[k]]])

SourceAdds(source) ==
    Flatten([j \in 1..Len(source.components) |->
        [k \in 1..Len(CompressionFormats) |->
            <<source.components[j], source.architectures[1],
              BaseUrl(source) \o source.components[j] \o Lit.SlashSourceSources
                  \o CompressionFormats[k]>>]])

\* Source.GetIndexes(): the list it returns and the Add calls it makes, or
\* the exception that ends it. `if self._components:` sends every Source
\* with a component (the "Flat" of a flat repository included) through the
\* dists/ templates; the else branch runs on an empty component list and
\* ends at self._components[0].
GetIndexes(source, contents) ==
    IF source.components # <<>>
    THEN [err |-> "none",
          indexes |-> <<BaseUrl(source) \o Lit.InRelease, BaseUrl(source) \o Lit.Release,
                        BaseUrl(source) \o Lit.ReleaseGpg>>
                      \o (IF source.sourceType = "Bin"
                          THEN BinaryIndexes(source, contents)
                          ELSE SourceIndexes(source)),
          adds |-> IF source.sourceType = "Bin" THEN BinaryAdds(source)
                   ELSE SourceAdds(source)]
    ELSE [err |-> "IndexError", indexes |-> <<>>, adds |-> <<>>]

\* Source.GetReleaseFiles(modified), as the set of its elements
GetReleaseFiles(ic, modified, force) ==
    IF modified THEN Files(ic, force) ELSE UnmodifiedFiles(ic)

-----------------------------------------------------------------------------
(* Source.__ProcessLine: the checksum-block line scanner                   *)

IsChecksumHeader(line) ==
    Contains(line, Lit.Sha256Colon) \/ Contains(line, Lit.Sha1Colon)
        \/ Contains(line, Lit.Md5SumColon)

\* checksumType.replace(":", "").strip()
ChecksumTypeOf(line) == Strip(Remove(line, Lit.Colon))

\* re.search("^ +(.*)$", line): leading spaces, then no newline but a last one
MatchesRecordPattern(line) ==
    /\ line # <<>>
    /\ line[1] = " "
    /\ \A i \in 1..(Len(line) - 1) : line[i] # "\n"

\* re.match(rf"{component}/i18n/Translation-[^./]*\.(gz|bz2|xz)$", filename),
\* for a component of word characters
MatchesTranslation(component, filename) ==
    LET pre == component \o Lit.SlashI18nTranslationDash
    IN  /\ StartsWith(filename, pre)
        /\ \E k \in 1..Len(CompressionFormats) :
            LET ext == CompressionFormats[k]
                lang == SubSeq(filename, Len(pre) + 1, Len(filename) - Len(ext))
            IN  /\ Len(filename) >= Len(pre) + Len(ext)
                /\ EndsWith(filename, ext)
                /\ \A i \in 1..Len(lang) : lang[i] \notin {".", "/"}

\* re.match(rf"{component}/dep11/(Components-{arch}\.yml|icons-[^./]+\.tar)
\* \.(gz|bz2|xz)$", filename), for a component and arch of word characters
MatchesDep11(component, arch, filename) ==
    LET pre == component \o Lit.SlashDep11Slash
    IN  /\ StartsWith(filename, pre)
        /\ \E k \in 1..Len(CompressionFormats) :
            LET ext == CompressionFormats[k]
                stem == SubSeq(filename, Len(pre) + 1, Len(filename) - Len(ext))
                size == SubSeq(stem, Len(Lit.IconsDash) + 1, Len(stem) - Len(Lit.DotTar))
            IN  /\ Len(filename) >= Len(pre) + Len(ext)
                /\ EndsWith(filename, ext)
                /\ \/ stem = Lit.ComponentsDash \o arch \o Lit.DotYml
                   \/ /\ StartsWith(stem, Lit.IconsDash)
                      /\ EndsWith(stem, Lit.DotTar)
                      /\ Len(stem) > Len(Lit.IconsDash) + Len(Lit.DotTar)
                      /\ \A i \in 1..Len(size) : size[i] \notin {".", "/"}

\* the arguments of a call of Source.__ProcessLine after the file: indexType,
\* indexUri, baseUri and component, with the Source's architectures and
\* Settings.ByHash() which the loop reads
Call(indexType, indexUri, baseUri, component, architectures, byHash) ==
    [indexType |-> indexType, indexUri |-> indexUri, baseUri |-> baseUri,
     component |-> component, architectures |-> architectures, byHash |-> byHash]

\* what one well-formed checksum record appends to indexes
RecordIndexes(parts, checksumType, call) ==
    LET checksum == Strip(parts[1])
        filename == RStrip(parts[3])
        indexType == call.indexType
        indexUri == call.indexUri
        baseUri == call.baseUri
        component == call.component
        architectures == call.architectures
        byHash == call.byHash
    IN  IF indexType = "Release"
        THEN IF MatchesTranslation(component, filename)
             THEN <<indexUri \o filename>>
                  \o (IF byHash
                      THEN <<indexUri \o component \o Lit.SlashI18nByHashSlash
                                \o checksumType \o Lit.Slash \o checksum>>
                      ELSE <<>>)
             ELSE <<>>
        ELSE IF indexType = "Dep11"
        THEN Flatten([i \in 1..Len(architectures) |->
                IF MatchesDep11(component, architectures[i], filename)
                THEN <<indexUri \o filename>> ELSE <<>>])
             \o (IF byHash
                 THEN <<indexUri \o component \o Lit.SlashDep11ByHashSlash
                           \o checksumType \o Lit.Slash \o checksum>>
                 ELSE <<>>)
        ELSE <<baseUri \o filename>>

\* the scanner before the first line: checksums = False, indexes = []
\* (checksumType is unbound until a header line binds it; no line reads it
\* before, since checksums is set only on a header line)
ScanStart ==
    [checksums |-> FALSE, checksumType |-> <<>>, indexes |-> <<>>, err |-> "none"]

\* logger.warn and `continue` on a malformed record: the scanner stays in the
\* block and nothing is raised (the mutant leaves the block)
AfterMalformed_LeaveBlock(st) == [st EXCEPT !.checksums = FALSE]

AfterMalformed(st) == st

\* one iteration of `for line in f`
ProcessLineStep(st, line, call) ==
    LET typed == IF IsChecksumHeader(line)
                 THEN [st EXCEPT !.checksumType = ChecksumTypeOf(line)]
                 ELSE st
        parts == FilterNone(Split(line, Lit.Space))
    IN  IF typed.checksums
        THEN IF MatchesRecordPattern(line)
             THEN IF Len(parts) # 3
                  THEN AfterMalformed(typed)
                  ELSE [typed EXCEPT !.indexes = @ \o
                            RecordIndexes(parts, typed.checksumType, call)]
             ELSE [typed EXCEPT !.checksums = FALSE]
        ELSE [typed EXCEPT !.checksums = IsChecksumHeader(line)]

\* the whole loop over the lines of an opened file
RECURSIVE ScanLines(_, _, _)
ScanLines(st, lines, call) ==
    IF lines = <<>> THEN st
    ELSE ScanLines(ProcessLineStep(st, Head(lines), call), Tail(lines), call)

-----------------------------------------------------------------------------
(* Source: translation and Dep11 discovery                                 *)

\* the checksum, size and letters of the records of the files of the model
ChecksumC == <<"c">>
SizeOne == <<"1">>
LangE == <<"e">>
IconX == <<"x">>

RecordLine(checksum, size, filename) ==
    Lit.Space \o checksum \o Lit.Space \o size \o Lit.Space \o filename \o Lit.Newline

\* the local path of the Release file and of a component's i18n/Index
ReleasePath(source) == SanitiseUri(BaseUrl(source) \o Lit.Release)

IndexFilePath(source, component) ==
    SanitiseUri(BaseUrl(source) \o component \o Lit.SlashI18nSlash \o Lit.Index)

\* the lines of the Release file a mirror of the Source holds, when it holds
\* one: two checksum sections apart, with the translation and icon files of
\* the first component
ReleaseLines(source) ==
    LET component == IF source.components = <<>> THEN <<>> ELSE source.components[1]
        translation == component \o Lit.SlashI18nTranslationDash \o LangE \o Lit.Gz
        icons == component \o Lit.SlashDep11Slash \o Lit.IconsDash \o IconX \o Lit.DotTar \o Lit.Gz
    IN  <<Lit.Md5SumColon \o Lit.Newline,
          RecordLine(ChecksumC, SizeOne, translation),
          RecordLine(ChecksumC, SizeOne, icons),
          Lit.Release \o Lit.Colon \o Lit.Newline,
          Lit.Sha256Colon \o Lit.Newline,
          RecordLine(ChecksumC, SizeOne, translation)>>

\* the lines of an i18n/Index file
IndexLines ==
    <<Lit.Sha1Colon \o Lit.Newline,
      RecordLine(ChecksumC, SizeOne, <<"T", "r">> \o <<"-">> \o LangE \o Lit.Bz2)>>

FileLines(source, file) ==
    IF file = ReleasePath(source) THEN ReleaseLines(source) ELSE IndexLines

\* Source.__ProcessLine(file, ...): open(file) raises on a missing file
ProcessLine(source, d, file, call) ==
    IF ~IsFile(d, file)
    THEN [err |-> "FileNotFoundError", indexes |-> <<>>]
    ELSE [err |-> "none",
          indexes |-> ScanLines(ScanStart, FileLines(source, file), call).indexes]

\* Source.__ProcessTranslationIndex(url, component)
ProcessTranslationIndex(source, d, url, component, byHash) ==
    LET baseUri == url \o component \o Lit.SlashI18nSlash
        indexUri == baseUri \o Lit.Index
        indexPath == SanitiseUri(indexUri)
    IN  IF ~IsFile(d, indexPath)
        THEN ProcessLine(source, d, SanitiseUri(url \o Lit.Release),
                         Call("Release", url, <<>>, component,
                              source.architectures, byHash))
        ELSE ProcessLine(source, d, indexPath,
                         Call("Index", indexUri, baseUri, <<>>,
                              source.architectures, byHash))

\* the loop over the components of GetTranslationIndexes and GetDep11Files:
\* the lists are concatenated, the first exception ends the call
RECURSIVE Collect(_, _)
Collect(acc, perComponent) ==
    IF perComponent = <<>> THEN acc
    ELSE IF Head(perComponent).err # "none"
    THEN [err |-> Head(perComponent).err, indexes |-> <<>>]
    ELSE Collect([err |-> "none",
                  indexes |-> acc.indexes \o Head(perComponent).indexes],
                 Tail(perComponent))

\* Source.GetTranslationIndexes()
GetTranslationIndexes(source, d, byHash) ==
    IF source.sourceType # "Bin" THEN [err |-> "none", indexes |-> <<>>]
    ELSE Collect([err |-> "none", indexes |-> <<>>],
                 [j \in 1..Len(source.components) |->
                    ProcessTranslationIndex(source, d, BaseUrl(source),
                                            source.components[j], byHash)])

\* Source.GetDep11Files()
GetDep11Files(source, d, byHash) ==
    IF source.sourceType # "Bin" THEN [err |-> "none", indexes |-> <<>>]
    ELSE Collect([err |-> "none", indexes |-> <<>>],
                 [j \in 1..Len(source.components) |->
                    ProcessLine(source, d, ReleasePath(source),
                                Call("Dep11", BaseUrl(source), <<>>,
                                     source.components[j], source.architectures,
                                     byHash))])

-----------------------------------------------------------------------------
(* The Source under its callers: the configuration lines of the model, the *)
(* mirror's files, and the calls in any order.                             *)

Uri == <<"s">> \o Lit.SchemeSep \o <<"h">>
DistD == <<"d">>
CompM == <<"m">>
CompC == <<"c">>
ArchA == <<"a">>
ArchI == <<"i">>

\* the default architecture given to Source.__init__
DefaultArch == ArchA

LineBinary == Lit.Deb \o Lit.Space \o Uri \o Lit.Space \o DistD \o Lit.Space \o CompM

LineTwoArch ==
    Lit.Deb \o Lit.Space \o Lit.OpenBracket \o Lit.ArchEq \o ArchA \o Lit.Comma \o ArchI
        \o Lit.CloseBracket \o Lit.Space \o Uri \o Lit.Space \o DistD \o Lit.Space \o CompM

LineSource ==
    Lit.DebSrc \o Lit.Space \o Uri \o Lit.Space \o DistD \o Lit.Space \o CompM \o Lit.Space \o CompC

LineSourceTwoArch ==
    Lit.DebSrc \o Lit.Space \o Lit.OpenBracket \o Lit.ArchEq \o ArchA \o Lit.Comma \o ArchI
        \o Lit.CloseBracket \o Lit.Space \o Uri \o Lit.Space \o DistD \o Lit.Space \o CompM

LineFlat == Lit.Deb \o Lit.Space \o Uri

LineNoComponents == Lit.Deb \o Lit.Space \o Uri \o Lit.Space \o DistD

ConfigLines ==
    {LineBinary, LineTwoArch, LineSource, LineSourceTwoArch, LineFlat, LineNoComponents}

\* the index files that may exist under SkelPath in the runs of Spec: the
\* .gz and .xz variants of the first registered index (a server that offers
\* no .bz2, and nothing for the other components)
IndexFiles(source) ==
    LET adds == GetIndexes(source, FALSE).adds
    IN  {SanitiseUri(adds[k][3]) : k \in {1, 3} \cap DOMAIN adds}

\* the files that may exist under SkelPath in the runs of SpecCalls: the .gz
\* variant of the first registered index, the Release file and the
\* i18n/Index of the first component
MirrorFiles(source) ==
    LET adds == GetIndexes(source, FALSE).adds
    IN  {SanitiseUri(adds[k][3]) : k \in {1} \cap DOMAIN adds}
        \cup {ReleasePath(source)}
        \cup {IndexFilePath(source, source.components[j]) :
                j \in {1} \cap DOMAIN source.components}

\* the registered files of a collection
AllFiles(ic) == {e[3] : e \in Entries(ic)}

\* what a probe sees of the files: the modification time, 0 for a missing file
Snapshot(d, files) ==
    [f \in files |-> IF IsFile(d, f) THEN GetMTime(d, SanitiseUri(f)) ELSE 0]

\* a Source constructed from one of the lines, its collection as __init__
\* leaves it, and a mirror that holds none of the files yet
InitSource(lines, settingsChoices) ==
    /\ \E line \in lines :
        /\ SourceInit(line, DefaultArch).err = "none"
        /\ src = SourceInit(line, DefaultArch)
    /\ indexCollection = IndexCollectionInit(src.components, src.architectures)
    /\ settings \in settingsChoices
    /\ phase = "new"
    /\ registered = {}
    /\ probe1 = <<>>
    /\ probe2 = <<>>
    /\ lastCall = "__init__"
    /\ lastErr = "none"
    /\ returned = <<>>
    /\ prevPass = "none"

\* (the mutant returns only the files that the mirror does not hold yet)
CallGetIndexes_SkipPresent ==
    LET all == GetIndexes(src, settings.contents)
        Missing(u) == ~IsFile(disk, SanitiseUri(u))
        r == [all EXCEPT !.indexes = SelectSeq(@, Missing)]
        added == AddAll(indexCollection, r.adds)
    IN  /\ lastCall' = "GetIndexes"
        /\ lastErr' = r.err
        /\ IF r.err = "none"
           THEN /\ indexCollection' = DetermineCurrentTimestamps(added, disk)
                /\ phase' = "indexed"
                /\ registered' = AllFiles(added)
                /\ probe1' = Snapshot(disk, AllFiles(added))
                /\ probe2' = <<>>
                /\ returned' = <<[indexes |-> r.indexes,
                                  diskChanged |-> probe1 # <<>> /\ probe1' # probe1]>>
                        \o (IF returned = <<>> THEN <<>> ELSE <<returned[1]>>)
           ELSE UNCHANGED <<indexCollection, phase, registered, probe1, probe2,
                            returned>>
        /\ UNCHANGED <<src, disk, settings>>

\* a call of Source.GetIndexes()
CallGetIndexes ==
    LET r == GetIndexes(src, settings.contents)
        added == AddAll(indexCollection, r.adds)
    IN  /\ lastCall' = "GetIndexes"
        /\ lastErr' = r.err
        /\ IF r.err = "none"
           THEN /\ indexCollection' = DetermineCurrentTimestamps(added, disk)
                /\ phase' = "indexed"
                /\ registered' = AllFiles(added)
                /\ probe1' = Snapshot(disk, AllFiles(added))
                /\ probe2' = <<>>
                /\ returned' = <<[indexes |-> r.indexes,
                                  diskChanged |-> probe1 # <<>> /\ probe1' # probe1]>>
                        \o (IF returned = <<>> THEN <<>> ELSE <<returned[1]>>)
           ELSE UNCHANGED <<indexCollection, phase, registered, probe1, probe2,
                            returned>>
        /\ UNCHANGED <<src, disk, settings>>

\* a call of Source.Timestamp()
CallTimestamp ==
    /\ lastCall' = "Timestamp"
    /\ lastErr' = "none"
    /\ indexCollection' = DetermineDownloadTimestamps(indexCollection, disk)
    /\ phase' = CASE phase = "indexed" -> "stamped"
                  [] phase = "stamped" -> "restamped"
                  [] OTHER -> phase
    /\ probe2' = Snapshot(disk, registered)
    /\ returned' = <<>>
    /\ UNCHANGED <<src, disk, settings, registered, probe1>>

\* a call of Source.GetReleaseFiles(modified)
CallGetReleaseFiles ==
    /\ lastCall' = "GetReleaseFiles"
    /\ lastErr' = "none"
    /\ UNCHANGED <<src, indexCollection, disk, settings, phase, registered,
                   probe1, probe2, returned>>

\* a call of Source.GetTranslationIndexes()
CallGetTranslationIndexes ==
    LET r == GetTranslationIndexes(src, disk, settings.byHash)
    IN  /\ lastCall' = "GetTranslationIndexes"
        /\ lastErr' = r.err
        /\ UNCHANGED <<src, indexCollection, disk, settings, phase, registered,
                       probe1, probe2, returned>>

\* a call of Source.GetDep11Files()
CallGetDep11Files ==
    LET r == GetDep11Files(src, disk, settings.byHash)
    IN  /\ lastCall' = "GetDep11Files"
        /\ lastErr' = r.err
        /\ UNCHANGED <<src, indexCollection, disk, settings, phase, registered,
                       probe1, probe2, returned>>

\* the mirror changes between two calls: a fetch writes a file or gives it
\* the server's modification time, or a file is removed
DiskChange ==
    /\ \E f \in DOMAIN disk :
        \E t \in 0..(IF f \in {ReleasePath(src)} \cup
                            {IndexFilePath(src, src.components[j]) :
                                j \in DOMAIN src.components}
                     THEN 1 ELSE MaxMTime) :
            /\ t # disk[f]
            /\ disk' = [disk EXCEPT ![f] = t]
    /\ lastCall' = "fetch"
    /\ lastErr' = "none"
    /\ UNCHANGED <<src, indexCollection, settings, phase, registered, probe1,
                   probe2, returned>>

ParkedSource ==
    /\ src = <<>>
    /\ indexCollection = <<>>
    /\ disk = <<>>
    /\ settings = <<>>
    /\ phase = "new"
    /\ registered = {}
    /\ probe1 = <<>>
    /\ probe2 = <<>>
    /\ lastCall = "none"
    /\ lastErr = "none"
    /\ returned = <<>>
    /\ prevPass = "none"

ParkedParse ==
    /\ parseLine = <<>>
    /\ parsed = <<>>
    /\ parsePc = "none"
    /\ parseErr = "none"

ParkedScan ==
    /\ scanMode = <<>>
    /\ scanSt = <<>>
    /\ scanCount = 0
    /\ scanPc = "none"
    /\ scanHist = <<>>
    /\ inSection = FALSE

ParkedPkg ==
    /\ pkgContent = <<>>
    /\ pkgLines = <<>>
    /\ pkgPos = 0
    /\ packages = <<>>
    /\ package = <<>>
    /\ key = <<>>
    /\ pkgPc = "none"
    /\ pkgErr = "none"
    /\ pkgBefore = <<>>

ParkedDl ==
    /\ varPath = <<>>
    /\ mainPc = "none"
    /\ threads = 0
    /\ urls = <<>>
    /\ nextTask = 0
    /\ pool = <<>>
    /\ procCounter = 0
    /\ results = <<>>
    /\ attempts = <<>>
    /\ batches = 0
    /\ crashes = 0
    /\ stale = {}
    /\ removed = {}

\* Spec: a Source and its IndexCollection through passes of GetIndexes(),
\* fetches, Timestamp() and GetReleaseFiles(), in any order
Init ==
    /\ InitSource({LineBinary},
                  [force : BOOLEAN, byHash : {FALSE}, contents : {FALSE}])
    /\ disk = [f \in IndexFiles(src) |-> 0]
    /\ ParkedScan
    /\ ParkedPkg
    /\ ParkedParse
    /\ ParkedDl

Next ==
    \/ CallGetIndexes /\ UNCHANGED <<prevPass, scanVars, pkgVars, dlVars, parseVars>>
    \/ CallTimestamp /\ UNCHANGED <<prevPass, scanVars, pkgVars, dlVars, parseVars>>
    \/ CallGetReleaseFiles /\ UNCHANGED <<prevPass, scanVars, pkgVars, dlVars, parseVars>>
    \/ DiskChange /\ UNCHANGED <<prevPass, scanVars, pkgVars, dlVars, parseVars>>

Spec == Init /\ [][Next]_vars

\* the registered files a probe found on disk
OnDisk(probe) == {f \in DOMAIN probe : probe[f] # 0}

\* the registered files other than f that share f's extension-stripped name
Variants(f) == {g \in registered \ {f} : SplitextRoot(g) = SplitextRoot(f)}

\* the files on disk at both probes, with the same modification time
Unchanged == {f \in registered : probe1[f] # 0 /\ probe1[f] = probe2[f]}

\* C1 as stated: with the force flag disabled, after GetIndexes() followed by
\* Timestamp(), a registered file that was on disk at both probes with the
\* same modification time does not have its extension-stripped name in
\* GetReleaseFiles(modified=True), whatever happened to the other files.
C1_UnchangedFileNotListed ==
    (phase = "stamped" /\ ~settings.force) =>
        \A f \in Unchanged :
            SplitextRoot(f) \notin GetReleaseFiles(indexCollection, TRUE, settings.force)

\* C1 as amended: the name of such a file is in GetReleaseFiles(modified=True)
\* exactly when another registered file with the same extension-stripped
\* name (another compression variant of the index) was on disk at
\* Timestamp() with a modification time other than the one GetIndexes()
\* probed (0.0 for a file that was missing then).
C1_UnchangedFileListedOnlyForVariant ==
    (phase = "stamped" /\ ~settings.force) =>
        \A f \in Unchanged :
            SplitextRoot(f) \in GetReleaseFiles(indexCollection, TRUE, settings.force)
                <=> \E g \in Variants(f) : probe2[g] # 0 /\ probe1[g] # probe2[g]

\* C1 witness: GetReleaseFiles was called with an unchanged file on disk whose
\* name is listed because of a variant the fetch rewrote.
C1_Witness ==
    /\ phase = "stamped"
    /\ ~settings.force
    /\ lastCall = "GetReleaseFiles"
    /\ \E f \in Unchanged :
        /\ SplitextRoot(f) \in GetReleaseFiles(indexCollection, TRUE, settings.force)
        /\ \E g \in Variants(f) : probe1[g] # 0 /\ probe2[g] # 0 /\ probe2[g] # probe1[g]

\* C2 as stated: after GetIndexes() followed by Timestamp(), a registered file
\* that is absent from disk at Timestamp() has no entry in the collection and
\* its extension-stripped name is in neither list of GetReleaseFiles.
C2_AbsentFileNameInNeitherList ==
    phase = "stamped" =>
        \A f \in registered \ OnDisk(probe2) :
            /\ f \notin AllFiles(indexCollection)
            /\ SplitextRoot(f) \notin GetReleaseFiles(indexCollection, TRUE, settings.force)
            /\ SplitextRoot(f) \notin GetReleaseFiles(indexCollection, FALSE, settings.force)

\* C2 as amended: the entry of such a file is removed, and its
\* extension-stripped name is in one of the two lists exactly when another
\* registered file with the same extension-stripped name is on disk at
\* Timestamp().
C2_AbsentFileEntryRemoved ==
    phase = "stamped" =>
        \A f \in registered \ OnDisk(probe2) :
            /\ f \notin AllFiles(indexCollection)
            /\ (SplitextRoot(f) \in
                    GetReleaseFiles(indexCollection, TRUE, settings.force)
                    \cup GetReleaseFiles(indexCollection, FALSE, settings.force))
                <=> \E g \in Variants(f) : probe2[g] # 0

\* C2 witness: a file that GetIndexes() found and Timestamp() did not, beside
\* a variant that is there.
C2_Witness ==
    /\ phase = "stamped"
    /\ lastCall = "GetReleaseFiles"
    /\ \E f \in registered \ OnDisk(probe2) :
        /\ probe1[f] # 0
        /\ \E g \in Variants(f) : probe2[g] # 0

\* C3: with the force flag enabled, after GetIndexes() followed by
\* Timestamp(), every registered file on disk at Timestamp() has its
\* extension-stripped name in GetReleaseFiles(modified=True).
C3_ForceListsEveryPresentFile ==
    (phase = "stamped" /\ settings.force) =>
        \A f \in OnDisk(probe2) :
            SplitextRoot(f) \in GetReleaseFiles(indexCollection, TRUE, settings.force)

\* C3 witness: under force, every variant of an index is unchanged, and one
\* run where a file's modification time changed.
C3_Witness ==
    /\ phase = "stamped"
    /\ settings.force
    /\ lastCall = "GetReleaseFiles"
    /\ OnDisk(probe2) # {}
    /\ \A f \in OnDisk(probe2) : probe1[f] = probe2[f]

\* SpecPass: passes over one Binary Source with the force flag disabled:
\* GetIndexes(), fetches that write, touch and remove files, Timestamp() and
\* GetReleaseFiles(), in any order, with what the pass before reported
InitPass ==
    /\ InitSource({LineBinary},
                  [force : {FALSE}, byHash : {FALSE}, contents : {FALSE}])
    /\ disk = [f \in IndexFiles(src) |-> 0]
    /\ ParkedScan
    /\ ParkedPkg
    /\ ParkedParse
    /\ ParkedDl

NextPass ==
    \/ /\ CallGetIndexes
       /\ prevPass' =
            IF phase \notin {"stamped", "restamped"} THEN prevPass
            ELSE IF GetReleaseFiles(indexCollection, TRUE, settings.force) # {}
            THEN "modified" ELSE "unmodified"
       /\ UNCHANGED <<scanVars, pkgVars, dlVars, parseVars>>
    \/ CallTimestamp /\ UNCHANGED <<prevPass, scanVars, pkgVars, dlVars, parseVars>>
    \/ CallGetReleaseFiles /\ UNCHANGED <<prevPass, scanVars, pkgVars, dlVars, parseVars>>
    \/ DiskChange /\ UNCHANGED <<prevPass, scanVars, pkgVars, dlVars, parseVars>>

SpecPass == InitPass /\ [][NextPass]_vars

\* C21: with the force flag disabled, when a completed pass is followed by
\* a second pass (GetIndexes(), fetch, Timestamp()) during which no file on
\* disk is created, removed or given a new modification time, then after
\* the second Timestamp() GetReleaseFiles(modified=True) is empty and every
\* registered file on disk has its extension-stripped name in
\* GetReleaseFiles(modified=False), whatever the first pass reported.
C21_QuietSecondPassReportsNothing ==
    (/\ prevPass # "none"
     /\ phase = "stamped"
     /\ ~settings.force
     /\ probe1 = probe2) =>
        /\ GetReleaseFiles(indexCollection, TRUE, settings.force) = {}
        /\ \A f \in OnDisk(probe2) :
            SplitextRoot(f) \in GetReleaseFiles(indexCollection, FALSE, settings.force)

\* C21 witness: the first pass reported modified files, the second pass saw
\* the same files with the same modification times at GetIndexes() and at
\* Timestamp(), some of them on disk, and GetReleaseFiles was called
C21_Witness ==
    /\ prevPass = "modified"
    /\ phase = "stamped"
    /\ ~settings.force
    /\ probe1 = probe2
    /\ OnDisk(probe2) # {}
    /\ lastCall = "GetReleaseFiles"

\* SpecCalls: the five operations of every Source the constructor accepts,
\* called in any order while the mirror's files come and go
InitCalls ==
    /\ InitSource(ConfigLines,
                  [force : {FALSE}, byHash : BOOLEAN, contents : {FALSE}])
    /\ disk = [f \in MirrorFiles(src) |-> 0]
    /\ ParkedScan
    /\ ParkedPkg
    /\ ParkedParse
    /\ ParkedDl

NextCalls ==
    \/ CallGetIndexes /\ UNCHANGED <<prevPass, scanVars, pkgVars, dlVars, parseVars>>
    \/ CallTimestamp /\ UNCHANGED <<prevPass, scanVars, pkgVars, dlVars, parseVars>>
    \/ CallGetReleaseFiles /\ UNCHANGED <<prevPass, scanVars, pkgVars, dlVars, parseVars>>
    \/ CallGetTranslationIndexes /\ UNCHANGED <<prevPass, scanVars, pkgVars, dlVars, parseVars>>
    \/ CallGetDep11Files /\ UNCHANGED <<prevPass, scanVars, pkgVars, dlVars, parseVars>>
    \/ DiskChange /\ UNCHANGED <<prevPass, scanVars, pkgVars, dlVars, parseVars>>

SpecCalls == InitCalls /\ [][NextCalls]_vars

\* the flat template of GetIndexes: the three release files of
\* <uri>/<distribution>/, then Sources and Packages in each compression
\* format, which are the files it registers
FlatTemplate(source) ==
    LET flatUrl == source.uri \o Lit.Slash \o source.distribution
    IN  <<flatUrl \o Lit.Slash \o Lit.InRelease, flatUrl \o Lit.Slash \o Lit.Release,
          flatUrl \o Lit.Slash \o Lit.ReleaseGpg>>
        \o Flatten([k \in 1..Len(CompressionFormats) |->
                <<flatUrl \o Lit.SlashSources \o CompressionFormats[k],
                  flatUrl \o Lit.SlashPackages \o CompressionFormats[k]>>])

\* C11: a Source parsed from a line with no distribution and no components
\* is flat with components ["Flat"], and GetIndexes() on it returns the URLs
\* of the flat template, Sources and Packages of each compression format
\* registered in the collection; no returned URL has a dists/ path.
C11_FlatUsesFlatTemplate ==
    (src.flatRepository /\ returned # <<>>) =>
        /\ src.components = <<Lit.Flat>>
        /\ returned[1].indexes = FlatTemplate(src)
        /\ registered = {SanitiseUri(FlatTemplate(src)[k]) :
                            k \in 4..Len(FlatTemplate(src))}
        /\ \A u \in Range(returned[1].indexes) : ~Contains(u, Lit.Dists)

\* C13: two calls of GetIndexes() with no call of Timestamp() between them
\* return the same list of URLs in the same order, whatever happened to the
\* files on disk between the two calls.
C13_GetIndexesRepeatable ==
    Len(returned) = 2 => returned[1].indexes = returned[2].indexes

\* C13 witness: GetIndexes() has returned a non-empty list twice with no
\* Timestamp() between, and the mirror's files differ at the two calls
C13_Witness ==
    /\ Len(returned) = 2
    /\ returned[1].diskChanged
    /\ returned[1].indexes # <<>>

\* C14: after any sequence of Add, DetermineCurrentTimestamps and
\* DetermineDownloadTimestamps, every (component, architecture) pair of the
\* constructor's arguments is still a key of the collection, with a file map
\* that may be empty.
C14_ConstructorPairsStayKeys ==
    \A c \in Range(src.components), a \in Range(src.architectures) :
        /\ c \in DOMAIN indexCollection
        /\ a \in DOMAIN indexCollection[c]

\* C14 witness: after GetIndexes() and Timestamp(), one pair that was never
\* given a file and one pair whose files were all dropped as absent are keys
\* with empty file maps
C14_Witness ==
    /\ phase \in {"stamped", "restamped"}
    /\ \E c \in Range(src.components) : \E a, b \in Range(src.architectures) :
        LET adds == GetIndexes(src, FALSE).adds
            addedPairs == {<<adds[k][1], adds[k][2]>> : k \in DOMAIN adds}
        IN
        /\ <<c, a>> \in addedPairs
        /\ <<c, b>> \notin addedPairs
        /\ a \in DOMAIN indexCollection[c] /\ DOMAIN indexCollection[c][a] = {}
        /\ b \in DOMAIN indexCollection[c] /\ DOMAIN indexCollection[c][b] = {}

\* C22: for every target that the constructor accepts, GetIndexes() returns
\* a list of URLs without raising, also for a target whose line gives a
\* distribution but no components.
C22_GetIndexesReturnsForEveryTarget ==
    lastCall = "GetIndexes" => (lastErr = "none" /\ returned # <<>>)

\* C10: whatever the order in which GetIndexes(), Timestamp(),
\* GetReleaseFiles(), GetTranslationIndexes() and GetDep11Files() are called
\* on a constructed Source, calls made before any file was fetched included,
\* no call ends in an error.
C10_NoCallEndsInError == lastErr = "none"

\* C10 witness: a discovery call made before anything was fetched ends in an
\* error.
C10_Witness ==
    /\ phase = "new"
    /\ lastCall = "GetDep11Files"
    /\ lastErr = "FileNotFoundError"
    /\ \A f \in DOMAIN disk : disk[f] = 0

-----------------------------------------------------------------------------
(* SpecParse: Source.__init__ on the lines of a configuration: each kind,  *)
(* with or without an architecture segment or a bracketed option, a plain  *)
(* URI or one with a bracketed host, with and without distribution,        *)
(* components and an inline comment; and the lines without fields.         *)

\* the lines: kind, architecture segment or bracketed option, URI (plain or
\* with a bracketed host), distribution and component, inline comment
ParseLineChoices ==
    LET bracketHostUri == <<"s", ":", "/", "/", "[", "h", "]">>
        segments ==
            {<<>>,
             Lit.Space \o Lit.OpenBracket \o Lit.ArchEq \o ArchA \o Lit.CloseBracket,
             Lit.Space \o Lit.OpenBracket \o Lit.ArchEq \o ArchA \o Lit.Comma
                \o ArchI \o Lit.CloseBracket,
             Lit.Space \o Lit.OpenBracket \o <<"o">> \o Lit.CloseBracket}
        bodies ==
            {<<>>} \cup
            {Lit.Space \o u \o t :
                u \in {Uri, bracketHostUri},
                t \in {<<>>, Lit.Space \o DistD,
                       Lit.Space \o DistD \o Lit.Space \o CompM}}
        comments == {<<>>, Lit.Space \o Lit.Hash \o Lit.OpenBracket \o Lit.CloseBracket}
    IN  {k \o a \o b \o c : k \in {Lit.Deb, Lit.DebSrc}, a \in segments,
                            b \in bodies, c \in comments}
        \cup {<<>>, Lit.Space, Lit.Hash \o <<"x">>}

InitParse ==
    /\ parseLine \in ParseLineChoices
    /\ parsed = <<>>
    /\ parsePc = "new"
    /\ parseErr = "none"
    /\ ParkedSource
    /\ ParkedScan
    /\ ParkedPkg
    /\ ParkedDl

\* Source(line, defaultArch)
Construct ==
    /\ parsePc = "new"
    /\ LET r == SourceInit(parseLine, DefaultArch)
       IN  /\ parseErr' = r.err
           /\ parsePc' = IF r.err = "none" THEN "constructed" ELSE "raised"
           /\ parsed' = IF r.err = "none" THEN r ELSE <<>>
    /\ UNCHANGED parseLine

NextParse ==
    \/ Construct /\ UNCHANGED <<srcVars, scanVars, pkgVars, dlVars>>

SpecParse == InitParse /\ [][NextParse]_vars

\* the line without its inline comment, and its fields
Uncommented(line) ==
    IF Contains(line, Lit.Hash) THEN SubSeq(line, 1, IndexOf(line, Lit.Hash) - 1)
    ELSE line

Fields(line) == FilterNone(Split(Uncommented(line), Lit.Space))

\* C12: for every line without an [arch=...] segment, lines where "[" and
\* "]" occur for another reason included, the Source constructed has the
\* architectures [defaultArch] and the token after the kind token as its uri.
C12_DefaultArchWithoutArchSegment ==
    (/\ parsePc = "constructed"
     /\ ~Contains(Uncommented(parseLine), Lit.OpenBracket \o Lit.ArchEq)) =>
        /\ parsed.architectures = <<DefaultArch>>
        /\ parsed.uri = Fields(parseLine)[2]

\* C15: constructing a Source from a line that has no fields after comment
\* stripping and filtering, or that lacks the URI token, ends in an error
\* and yields no object; no Source is constructed with an unset uri. (A line
\* lacks the URI token when nothing follows the kind token, or only a
\* bracketed segment.)
C15_MalformedLineRaises ==
    /\ (/\ parsePc # "new"
        /\ \/ Len(Fields(parseLine)) < 2
           \/ /\ Len(Fields(parseLine)) = 2
              /\ StartsWith(Fields(parseLine)[2], Lit.OpenBracket)) =>
            /\ parsePc = "raised"
            /\ parseErr # "none"
            /\ parsed = <<>>
    /\ parsePc = "constructed" => parsed.uri # <<>>

\* C15 witness: the constructor raised on a line with a kind and an
\* architecture segment and nothing else.
C15_Witness ==
    /\ parsePc = "raised"
    /\ Len(Fields(parseLine)) = 2
    /\ StartsWith(Fields(parseLine)[2], Lit.OpenBracket)

-----------------------------------------------------------------------------
(* SpecScan: Source.__ProcessLine on a file that is read line by line. The *)
(* Source is the one of LineTwoArch; the three ways the class calls the    *)
(* scanner are the three index types.                                      *)

ScanSource == SourceInit(LineTwoArch, DefaultArch)

TranslationFile == CompM \o Lit.SlashI18nTranslationDash \o LangE \o Lit.Gz

IconsFile == CompM \o Lit.SlashDep11Slash \o Lit.IconsDash \o IconX \o Lit.DotTar \o Lit.Gz

\* the lines a file is made of: the three section headers, a record of a
\* translation file, a record of a Dep11 file, an indented line of two
\* tokens, an indented line of four tokens, and a field line
TranslationRecord == RecordLine(ChecksumC, SizeOne, TranslationFile)

IconsRecord == RecordLine(ChecksumC, SizeOne, IconsFile)

TwoTokenLine == Lit.Space \o ChecksumC \o Lit.Space \o SizeOne \o Lit.Newline

FourTokenLine ==
    Lit.Space \o ChecksumC \o Lit.Space \o SizeOne \o Lit.Space \o IconX \o Lit.Space \o LangE
        \o Lit.Newline

FieldLine == <<"D", "a", "t", "e">> \o Lit.Colon \o Lit.Space \o IconX \o Lit.Newline

ScanLineChoices ==
    {Lit.Md5SumColon \o Lit.Newline, Lit.Sha1Colon \o Lit.Newline, Lit.Sha256Colon \o Lit.Newline,
     TranslationRecord, IconsRecord, TwoTokenLine, FourTokenLine, FieldLine}

\* the call of each index type, with the arguments GetTranslationIndexes and
\* GetDep11Files pass for the first component
ScanCall(indexType, byHash) ==
    LET url == BaseUrl(ScanSource)
        component == ScanSource.components[1]
        baseUri == url \o component \o Lit.SlashI18nSlash
    IN  IF indexType = "Index"
        THEN Call("Index", baseUri \o Lit.Index, baseUri, <<>>,
                  ScanSource.architectures, byHash)
        ELSE Call(indexType, url, <<>>, component, ScanSource.architectures,
                  byHash)

InitScan ==
    /\ scanMode \in {ScanCall(indexType, byHash) :
                        indexType \in {"Index", "Release", "Dep11"},
                        byHash \in BOOLEAN}
    /\ scanSt = ScanStart
    /\ scanCount = 0
    /\ scanPc = "reading"
    /\ scanHist = <<>>
    /\ inSection = FALSE
    /\ ParkedSource
    /\ ParkedPkg
    /\ ParkedParse
    /\ ParkedDl

\* `for line in f`: the next line of the file
ScanLine ==
    /\ scanPc = "reading"
    /\ scanCount < MaxScanLines
    /\ \E line \in ScanLineChoices :
        /\ scanSt' = ProcessLineStep(scanSt, line, scanMode)
        /\ scanHist' = <<[line |-> line, before |-> scanSt,
                          inSection |-> inSection]>>
                            \o (IF scanHist = <<>> THEN <<>> ELSE <<scanHist[1]>>)
        /\ inSection' = (IsChecksumHeader(line)
                            \/ (inSection /\ MatchesRecordPattern(line)))
    /\ scanCount' = scanCount + 1
    /\ UNCHANGED <<scanMode, scanPc>>

\* the end of the file: return indexes
ScanReturn ==
    /\ scanPc = "reading"
    /\ scanPc' = "returned"
    /\ UNCHANGED <<scanMode, scanSt, scanCount, scanHist, inSection>>

NextScan ==
    \/ ScanLine /\ UNCHANGED <<srcVars, pkgVars, dlVars, parseVars>>
    \/ ScanReturn /\ UNCHANGED <<srcVars, pkgVars, dlVars, parseVars>>

SpecScan == InitScan /\ [][NextScan]_vars

\* what the last line read appended to indexes
Emitted(h, after) ==
    SubSeq(after.indexes, Len(h.before.indexes) + 1, Len(after.indexes))

\* the tokens of a line
Parts(line) == FilterNone(Split(line, Lit.Space))

\* an indented line that does not split into three tokens
IsMalformedRecord(line) == MatchesRecordPattern(line) /\ Len(Parts(line)) # 3

\* C5: in Release mode a checksum record (a three-token indented line of a
\* checksum section) whose filename is <component>/i18n/Translation-<lang>
\* .(gz|bz2|xz) makes the scanner emit exactly one URL ending in the
\* filename, and one by-hash URL after it exactly when by-hash is enabled,
\* in whichever section of the file the record stands.
C5_TranslationRecordEmitsOneUrl ==
    (/\ scanMode.indexType = "Release"
     /\ scanHist # <<>>
     /\ scanHist[1].inSection
     /\ scanHist[1].line = TranslationRecord) =>
        LET emitted == Emitted(scanHist[1], scanSt)
        IN  /\ Len(emitted) = IF scanMode.byHash THEN 2 ELSE 1
            /\ EndsWith(emitted[1], TranslationFile)
            /\ scanMode.byHash => Contains(emitted[2], Lit.SlashI18nByHashSlash)

\* C6: inside a block, an indented line that does not split into exactly 3
\* tokens emits no URL, raises nothing and leaves the scanner inside the
\* block; a three-token record on the very next line is processed as in any
\* block (in Index mode it appends baseUri + filename).
C6_MalformedLineSkipped ==
    /\ (/\ scanHist # <<>>
        /\ scanHist[1].before.checksums
        /\ IsMalformedRecord(scanHist[1].line)) =>
            /\ Emitted(scanHist[1], scanSt) = <<>>
            /\ scanSt.err = "none"
            /\ scanSt.checksums
    /\ (/\ Len(scanHist) = 2
        /\ scanHist[2].before.checksums
        /\ IsMalformedRecord(scanHist[2].line)
        /\ MatchesRecordPattern(scanHist[1].line)
        /\ Len(Parts(scanHist[1].line)) = 3) =>
            /\ scanSt.err = "none"
            /\ scanSt.checksums
            /\ Emitted(scanHist[1], scanSt) =
                RecordIndexes(Parts(scanHist[1].line),
                              scanHist[1].before.checksumType, scanMode)
            /\ scanMode.indexType = "Index" =>
                Emitted(scanHist[1], scanSt) =
                    <<scanMode.baseUri \o RStrip(Parts(scanHist[1].line)[3])>>

\* C6 witness: a two-token line was skipped inside a block and the record on
\* the next line gave a URL.
C6_Witness ==
    /\ Len(scanHist) = 2
    /\ scanHist[2].before.checksums
    /\ scanHist[2].line = TwoTokenLine
    /\ scanHist[1].line = TranslationRecord
    /\ Emitted(scanHist[1], scanSt) # <<>>

\* C16: a line that ends a block (it is not an indented record) and is
\* itself a checksum-type header leaves the scanner inside a block on that
\* same line, so the records that follow it are scanned: in Index mode the
\* three-token record on the next line appends baseUri + filename.
C16_HeaderReentersBlock ==
    /\ (/\ scanHist # <<>>
        /\ scanHist[1].before.checksums
        /\ ~MatchesRecordPattern(scanHist[1].line)
        /\ IsChecksumHeader(scanHist[1].line)) =>
            scanSt.checksums
    /\ (/\ Len(scanHist) = 2
        /\ scanHist[2].before.checksums
        /\ ~MatchesRecordPattern(scanHist[2].line)
        /\ IsChecksumHeader(scanHist[2].line)
        /\ scanHist[1].line = TranslationRecord
        /\ scanMode.indexType = "Index") =>
            Emitted(scanHist[1], scanSt) = <<scanMode.baseUri \o TranslationFile>>

\* C20: in Dep11 mode with by-hash enabled, a checksum record emits a
\* by-hash URL only when its filename matches <component>/dep11/
\* (Components-<arch>.yml|icons-*.tar).(gz|bz2|xz) for a configured
\* architecture; a record whose filename does not match emits no URL.
C20_NoUrlForNonMatchingRecord ==
    (/\ scanMode.indexType = "Dep11"
     /\ scanMode.byHash
     /\ scanHist # <<>>
     /\ scanHist[1].before.checksums
     /\ MatchesRecordPattern(scanHist[1].line)
     /\ Len(Parts(scanHist[1].line)) = 3
     /\ \A k \in DOMAIN scanMode.architectures :
            ~MatchesDep11(scanMode.component, scanMode.architectures[k],
                          RStrip(Parts(scanHist[1].line)[3]))) =>
        Emitted(scanHist[1], scanSt) = <<>>

-----------------------------------------------------------------------------
(* SpecPkg: Index.Read and then Index.GetPackages, line by line, on the    *)
(* package indexes of up to MaxPkgLines lines.                             *)

FilenameLine == <<"F", "i", "l", "e", "n", "a", "m", "e", ":", " ", "a", "\n">>

SizeLine == <<"S", "i", "z", "e", ":", " ", "1", "\n">>

BlankLine == Lit.Newline

ContinuationLine == <<" ", "x", "\n">>

PackageLine == <<"P", "a", "c", "k", "a", "g", "e", ":", " ", "p", "\n">>

BareKeywordLine == <<"S", "i", "z", "e", "\n">>

ColonValueLine == <<"S", "H", "A", "1", ":", " ", "a", ":", "b", "\n">>

PkgLineChoices ==
    {FilenameLine, SizeLine, BlankLine, ContinuationLine, PackageLine,
     BareKeywordLine, ColonValueLine}

\* the contents of the files of the model
PkgFiles ==
    {Flatten(ls) : ls \in UNION {[1..n -> PkgLineChoices] : n \in 0..MaxPkgLines}}

InitPkg ==
    /\ pkgContent \in PkgFiles
    /\ pkgLines = <<>>
    /\ pkgPos = 0
    /\ packages = <<>>
    /\ package = <<>>
    /\ key = <<>>
    /\ pkgPc = "new"
    /\ pkgErr = "none"
    /\ pkgBefore = <<>>
    /\ ParkedSource
    /\ ParkedScan
    /\ ParkedParse
    /\ ParkedDl

\* Index.Read()
Read ==
    /\ pkgPc = "new"
    /\ pkgLines' = ReadLines(pkgContent)
    /\ pkgPc' = "read"
    /\ UNCHANGED <<pkgContent, pkgPos, packages, package, key, pkgErr, pkgBefore>>

\* Index.GetPackages(): the assignments before the loop
GetPackagesStart ==
    /\ pkgPc = "read"
    /\ packages' = PkgStart.packages
    /\ package' = PkgStart.package
    /\ key' = PkgStart.key
    /\ pkgPos' = 0
    /\ pkgPc' = "loop"
    /\ UNCHANGED <<pkgContent, pkgLines, pkgErr, pkgBefore>>

\* one iteration of the loop
GetPackagesLine ==
    /\ pkgPc = "loop"
    /\ pkgPos < Len(pkgLines)
    /\ LET st == GetPackagesStep([packages |-> packages, package |-> package,
                                  key |-> key, err |-> "none"],
                                 pkgLines[pkgPos + 1])
       IN  /\ packages' = st.packages
           /\ package' = st.package
           /\ key' = st.key
           /\ pkgErr' = st.err
           /\ pkgPc' = IF st.err = "none" THEN "loop" ELSE "raised"
    /\ pkgBefore' = [packages |-> packages, package |-> package, key |-> key]
    /\ pkgPos' = pkgPos + 1
    /\ UNCHANGED <<pkgContent, pkgLines>>

\* return packages
GetPackagesReturn ==
    /\ pkgPc = "loop"
    /\ pkgPos = Len(pkgLines)
    /\ pkgPc' = "returned"
    /\ UNCHANGED <<pkgContent, pkgLines, pkgPos, packages, package, key, pkgErr,
                   pkgBefore>>

NextPkg ==
    \/ Read /\ UNCHANGED <<srcVars, scanVars, dlVars, parseVars>>
    \/ GetPackagesStart /\ UNCHANGED <<srcVars, scanVars, dlVars, parseVars>>
    \/ GetPackagesLine /\ UNCHANGED <<srcVars, scanVars, dlVars, parseVars>>
    \/ GetPackagesReturn /\ UNCHANGED <<srcVars, scanVars, dlVars, parseVars>>

SpecPkg == InitPkg /\ [][NextPkg]_vars

\* a package index of stanzas: it starts and ends with a stanza line, no two
\* blank lines are adjacent, and each stanza is a field line followed by
\* field lines and indented continuation lines
IsStanzaFile(lines) ==
    /\ lines # <<>>
    /\ lines[1] # <<>>
    /\ lines[Len(lines)] # <<>>
    /\ \A i \in 1..(Len(lines) - 1) : lines[i] = <<>> => lines[i + 1] # <<>>
    /\ \A i \in 1..Len(lines) :
        \/ lines[i] = <<>>
        \/ MatchesField(lines[i])
        \/ lines[i][1] = " " /\ i > 1 /\ lines[i - 1] # <<>>

\* the number of the stanza a line stands in
StanzaOf(lines, i) == 1 + Cardinality({j \in 1..(i - 1) : lines[j] = <<>>})

StanzaCount(lines) == StanzaOf(lines, Len(lines))

\* the whitelisted field names of stanza n
StanzaFields(lines, n) ==
    {Split(lines[i], Lit.Colon)[1] :
        i \in {j \in 1..Len(lines) : /\ StanzaOf(lines, j) = n
                                     /\ lines[j] # <<>>
                                     /\ MatchesField(lines[j])}}
        \cap Keywords

\* C4: on a package index of N stanzas separated by single blank lines, the
\* last one ended by a newline and followed by no blank line, GetPackages
\* returns N records, record n holding exactly the whitelisted fields of
\* stanza n.
C4_OneRecordPerStanza ==
    (pkgPc \in {"returned", "raised"} /\ IsStanzaFile(pkgLines)) =>
        /\ pkgPc = "returned"
        /\ Len(packages) = StanzaCount(pkgLines)
        /\ \A n \in 1..Len(packages) :
            DOMAIN packages[n] = StanzaFields(pkgLines, n)

\* C17: a non-blank line that does not match the field pattern, read while
\* no pending key is active in the current record, is dropped: the current
\* record and the output list are unchanged and no error is raised; so for a
\* bare whitelisted name without colon and for a non-matching line right
\* after a blank-line flush.
C17_StrayLineDropped ==
    (/\ pkgBefore # <<>>
     /\ pkgLines[pkgPos] # <<>>
     /\ ~MatchesField(pkgLines[pkgPos])
     /\ \/ pkgBefore.key = <<>>
        \/ pkgBefore.key \notin DOMAIN pkgBefore.package) =>
        /\ pkgErr = "none"
        /\ package = pkgBefore.package
        /\ packages = pkgBefore.packages

\* C18: a field line whose name is in the whitelist stores under the name
\* all the text after the first colon of the line, trimmed, also when that
\* text contains colons.
C18_ValueIsTextAfterFirstColon ==
    (/\ pkgBefore # <<>>
     /\ pkgLines[pkgPos] # <<>>
     /\ MatchesField(pkgLines[pkgPos])
     /\ Split(pkgLines[pkgPos], Lit.Colon)[1] \in Keywords) =>
        LET line == pkgLines[pkgPos]
            name == Split(line, Lit.Colon)[1]
            afterFirstColon == SubSeq(line, IndexOf(line, Lit.Colon) + 1, Len(line))
        IN  /\ pkgErr = "none"
            /\ name \in DOMAIN package
            /\ package[name] = Strip(afterFirstColon)

\* C19: GetPackages returns exactly one record per blank line of its input,
\* in file order: record n holds the whitelisted fields read between blank
\* line n - 1 and blank line n, an empty record where two blank lines are
\* adjacent or the file starts with a blank line; the fields read after the
\* last blank line are in no returned record.
C19_OneRecordPerBlankLine ==
    pkgPc \in {"loop", "returned"} =>
        /\ Len(packages) = Cardinality({j \in 1..pkgPos : pkgLines[j] = <<>>})
        /\ \A n \in 1..Len(packages) :
            DOMAIN packages[n] = StanzaFields(SubSeq(pkgLines, 1, pkgPos), n)

\* C19 witness: GetPackages has returned a record with fields and then an
\* empty record for two adjacent blank lines, and the field read after the
\* last blank line is left in the local record that is not returned
C19_Witness ==
    /\ pkgPc = "returned"
    /\ Len(packages) = 2
    /\ packages[1] # EmptyDict
    /\ packages[2] = EmptyDict
    /\ package # EmptyDict

-----------------------------------------------------------------------------
(* Downloader                                                              *)


\* filename = f"{logPath}/Download-lock.{p._identity[0]}", relative to VarPath
MarkerName(id) == Lit.DownloadLock \o IntStr(id)

\* f"{filename}.lock", the file filelock.FileLock creates
LockName(id) == MarkerName(id) \o Lit.DotLock

\* the test of Downloader.Init on each entry of os.listdir(VarPath)
IsLeftoverLock_SubstringLock(file) == Contains(file, <<"l", "o", "c", "k">>)

IsLeftoverLock(file) == Contains(file, Lit.DotLock)

\* a file written (created or overwritten) in VarPath
WriteFile(dir, name, content) ==
    [n \in (DOMAIN dir) \cup {name} |-> IF n = name THEN content ELSE dir[n]]

\* os.remove of a file of VarPath
RemoveFile(dir, name) == [n \in (DOMAIN dir) \ {name} |-> dir[n]]

\* what follows the return of os.system in DownloadUrlsProcess: the exit
\* status is not read, the marker is removed whatever it was
AfterFetch_RaiseOnFailure(result) == IF result = "ok" THEN "remove" ELSE "raised"

AfterFetch(result) == "remove"

\* imap_unordered is exhausted when every URL's call has returned
BatchDone(n, got) == got = n

Urls == {"u1", "u2"}

NoUrls == <<>>

Batches == UNION {[1..n -> Urls] : n \in 0..MaxUrls}

InitDl ==
    /\ varPath = <<>>
    /\ mainPc = "start"
    /\ threads \in 1..MaxThreads
    /\ urls = NoUrls
    /\ nextTask = 0
    /\ pool = <<>>
    /\ procCounter = 0
    /\ results = <<>>
    /\ attempts = <<>>
    /\ batches = 0
    /\ crashes = 0
    /\ stale = {}
    /\ removed = {}
    /\ ParkedSource
    /\ ParkedScan
    /\ ParkedPkg
    /\ ParkedParse

\* Downloader.Init(): remove every file of VarPath with ".lock" in its name
DownloaderInit ==
    /\ mainPc = "start"
    /\ varPath' = [n \in {f \in DOMAIN varPath : ~IsLeftoverLock(f)} |-> varPath[n]]
    /\ mainPc' = "idle"
    /\ UNCHANGED <<threads, urls, nextTask, pool, procCounter, results,
                   attempts, batches, crashes, stale, removed>>

\* Downloader.Download(urls, kind) with an empty list: logs and returns
DownloadNothing ==
    /\ mainPc = "idle"
    /\ batches < MaxBatches
    /\ urls' = NoUrls
    /\ nextTask' = 0
    /\ results' = <<>>
    /\ attempts' = <<>>
    /\ batches' = batches + 1
    /\ UNCHANGED <<varPath, mainPc, threads, pool, procCounter, crashes,
                   stale, removed>>

\* Downloader.Download(urls, kind): multiprocessing.Pool(Settings.Threads())
\* starts the workers, whose identities continue the process's counter
DownloadStart ==
    /\ mainPc = "idle"
    /\ batches < MaxBatches
    /\ \E us \in Batches \ {NoUrls} :
        /\ urls' = us
        /\ attempts' = [i \in 1..Len(us) |-> 0]
    /\ nextTask' = 0
    /\ results' = <<>>
    /\ pool' = [id \in (procCounter + 1)..(procCounter + threads) |->
                    [pc |-> "idle", task |-> 0]]
    /\ procCounter' = procCounter + threads
    /\ batches' = batches + 1
    /\ mainPc' = "downloading"
    /\ UNCHANGED <<varPath, threads, crashes, stale, removed>>

\* the pool hands the next URL of the list to an idle worker, which enters
\* DownloadUrlsProcess and takes the FileLock of its slot
TakeTask(id) ==
    /\ mainPc = "downloading"
    /\ pool[id].pc = "idle"
    /\ nextTask < Len(urls)
    /\ nextTask' = nextTask + 1
    /\ pool' = [pool EXCEPT ![id] = [pc |-> "locked", task |-> nextTask + 1]]
    /\ varPath' = WriteFile(varPath, LockName(id), "")
    /\ UNCHANGED <<mainPc, threads, urls, procCounter, results, attempts,
                   batches, crashes, stale, removed>>

\* open(filename, "w"): the marker exists, empty
OpenMarker(id) ==
    /\ mainPc = "downloading"
    /\ pool[id].pc = "locked"
    /\ varPath' = WriteFile(varPath, MarkerName(id), "")
    /\ pool' = [pool EXCEPT ![id].pc = "opened"]
    /\ UNCHANGED <<mainPc, threads, urls, nextTask, procCounter, results,
                   attempts, batches, crashes, stale, removed>>

\* f.write(url) and the close that ends the with block; os.system starts
WriteMarker(id) ==
    /\ mainPc = "downloading"
    /\ pool[id].pc = "opened"
    /\ varPath' = WriteFile(varPath, MarkerName(id), urls[pool[id].task])
    /\ pool' = [pool EXCEPT ![id].pc = "fetching"]
    /\ UNCHANGED <<mainPc, threads, urls, nextTask, procCounter, results,
                   attempts, batches, crashes, stale, removed>>

\* os.system(wget ...) returns: wget succeeded, or failed after its retries
Fetch(id) ==
    /\ mainPc = "downloading"
    /\ pool[id].pc = "fetching"
    /\ \E result \in {"ok", "fail"} :
        /\ pool' = [pool EXCEPT ![id] =
                        [pc |-> AfterFetch(result), task |-> pool[id].task,
                         result |-> result]]
    /\ attempts' = [attempts EXCEPT ![pool[id].task] = @ + 1]
    /\ UNCHANGED <<varPath, mainPc, threads, urls, nextTask, procCounter,
                   results, batches, crashes, stale, removed>>

\* os.remove(filename), the release of the FileLock (its file stays, on
\* Unix) and the return of the call to the pool
RemoveMarker(id) ==
    /\ mainPc = "downloading"
    /\ pool[id].pc = "remove"
    /\ varPath' = RemoveFile(varPath, MarkerName(id))
    /\ removed' = {[slot |-> id, url |-> urls[pool[id].task],
                    result |-> pool[id].result]}
    /\ results' = WriteFile(results, pool[id].task, pool[id].result)
    /\ pool' = [pool EXCEPT ![id] = [pc |-> "idle", task |-> 0]]
    /\ UNCHANGED <<mainPc, threads, urls, nextTask, procCounter, attempts,
                   batches, crashes, stale>>

\* the for loop over imap_unordered ends, the with block terminates the pool
DownloadReturn ==
    /\ mainPc = "downloading"
    /\ BatchDone(Len(urls), Cardinality(DOMAIN results))
    /\ pool' = <<>>
    /\ mainPc' = "idle"
    /\ UNCHANGED <<varPath, threads, urls, nextTask, procCounter, results,
                   attempts, batches, crashes, stale, removed>>

\* the process and its workers are killed
Interrupt ==
    /\ mainPc \in {"idle", "downloading"}
    /\ crashes < MaxCrashes
    /\ crashes' = crashes + 1
    /\ stale' = {[name |-> MarkerName(id), url |-> urls[pool[id].task]] :
                    id \in {w \in DOMAIN pool : pool[w].pc = "fetching"}}
    /\ pool' = <<>>
    /\ mainPc' = "crashed"
    /\ UNCHANGED <<varPath, threads, urls, nextTask, procCounter, results,
                   attempts, batches, removed>>

\* refrapt is started again: a new process, whose child counter starts over
Restart ==
    /\ mainPc = "crashed"
    /\ mainPc' = "start"
    /\ procCounter' = 0
    /\ batches' = 0
    /\ urls' = NoUrls
    /\ nextTask' = 0
    /\ results' = <<>>
    /\ attempts' = <<>>
    /\ removed' = {}
    /\ UNCHANGED <<varPath, threads, pool, crashes, stale>>

NextDl ==
    \/ DownloaderInit
        /\ UNCHANGED <<srcVars, scanVars, pkgVars, parseVars>>
    \/ DownloadNothing
        /\ UNCHANGED <<srcVars, scanVars, pkgVars, parseVars>>
    \/ DownloadStart
        /\ UNCHANGED <<srcVars, scanVars, pkgVars, parseVars>>
    \/ \E id \in DOMAIN pool : TakeTask(id)
        /\ UNCHANGED <<srcVars, scanVars, pkgVars, parseVars>>
    \/ \E id \in DOMAIN pool : OpenMarker(id)
        /\ UNCHANGED <<srcVars, scanVars, pkgVars, parseVars>>
    \/ \E id \in DOMAIN pool : WriteMarker(id)
        /\ UNCHANGED <<srcVars, scanVars, pkgVars, parseVars>>
    \/ \E id \in DOMAIN pool : Fetch(id)
        /\ UNCHANGED <<srcVars, scanVars, pkgVars, parseVars>>
    \/ \E id \in DOMAIN pool : RemoveMarker(id)
        /\ UNCHANGED <<srcVars, scanVars, pkgVars, parseVars>>
    \/ DownloadReturn
        /\ UNCHANGED <<srcVars, scanVars, pkgVars, parseVars>>
    \/ Interrupt
        /\ UNCHANGED <<srcVars, scanVars, pkgVars, parseVars>>
    \/ Restart
        /\ UNCHANGED <<srcVars, scanVars, pkgVars, parseVars>>

SpecDl == InitDl /\ [][NextDl]_vars

\* C7: whenever the in-flight marker of a worker slot is removed, the fetch
\* that the marker recorded has succeeded (a failed fetch leaves the marker).
C7_MarkerRemovedOnlyOnSuccess ==
    \A r \in removed : r.result = "ok"

\* C8: a worker interrupted after it wrote its marker and before its fetch
\* returned leaves the marker, naming the URL, on disk: it is there when the
\* process has stopped, at the next start, and after Downloader.Init() has
\* deleted the leftover lock files (before any new download).
C8_StaleMarkerSurvivesInit ==
    (mainPc \in {"crashed", "start"} \/ (mainPc = "idle" /\ batches = 0)) =>
        \A s \in stale :
            /\ s.name \in DOMAIN varPath
            /\ varPath[s.name] = s.url

\* C8 witness: Downloader.Init() has run after an interruption that cut a fetch.
C8_Witness ==
    /\ mainPc = "idle"
    /\ batches = 0
    /\ stale # {}
    /\ \E id \in 1..MaxThreads : LockName(id) \notin DOMAIN varPath

\* C9: every URL of the batch is fetched at most once at any time and exactly
\* once when Download() has returned; no worker call raises, whatever the
\* fetches' results, the worker count and the interleaving.
C9_EveryUrlAttemptedOnce ==
    /\ \A i \in DOMAIN attempts : attempts[i] <= 1
    /\ \A id \in DOMAIN pool : pool[id].pc # "raised"
    /\ (mainPc = "idle" /\ batches > 0) =>
            /\ DOMAIN attempts = 1..Len(urls)
            /\ \A i \in 1..Len(urls) : attempts[i] = 1

\* C9 witness: a batch of several URLs has returned with two workers, one
\* fetch failed and another succeeded.
C9_Witness ==
    /\ mainPc = "idle"
    /\ batches > 0
    /\ threads >= 2
    /\ Len(urls) >= 2
    /\ \E i, j \in DOMAIN results : results[i] = "fail" /\ results[j] = "ok"

=============================================================================
